---------------------------- MODULE Spec2Model ----------------------------
(***************************************************************************)
(* Buddhabrot renderer: the morphological edge selector (im_edge,          *)
(* im_invert, im_or, im_dilate, im_collect_points), the orbit sampler      *)
(* (BuddhabrotThread::sample), the supervising loop, join and merge of     *)
(* main, and the colour lookup (remap, Colormap::operator()).              *)
(*                                                                         *)
(* Numbers.  The program computes in float/double.  The model computes    *)
(* the same expressions exactly, on inputs where the floating-point        *)
(* evaluation is exact or cannot change the truncated result: sampled      *)
(* points c are Gaussian integers (every orbit value is then an integer    *)
(* and double arithmetic on it is exact), and grid coordinates are the     *)
(* rationals -2 + 4x/S, kept as numerator and denominator.                 *)
(***************************************************************************)
EXTENDS Integers, Sequences, FiniteSets, TLC

VARIABLES
    \* ---- morphological selector (one call of a bitmap function) ----
    msize,          \* grid side S handed to the bitmap functions
    im,             \* the input bitmap, row-major, indices 0 .. S*S-1
    im2,            \* second operand of im_or
    mop,            \* which function was called last
    mres,           \* the bitmap it returned
    mpoints,        \* the points im_collect_points returned
    \* ---- colour lookup (one Colormap object) ----
    cmap_size,      \* cmap.size(), the table length
    vmin, vmax,     \* Colormap::vmin, Colormap::vmax
    cm_v,           \* the value last looked up
    left, right,    \* the table indices operator() read
    cm_op,          \* "init", "set_vrange" or "lookup"
    \* ---- BuddhabrotThread fields (the template every worker copies) ----
    size, max_iter, p_uniform, good_points, point_radius,
    n_points,       \* the argument of sample()
    \* ---- per worker ----
    counts,         \* counts[w]: the worker's histogram, cells 0 .. S*S-1
    progress,       \* progress[w]: the field as the worker last stored it
    k,              \* k[w]: the loop counter of sample()
    points,         \* points[w]: the trajectory scratch vector
    wpc,            \* wpc[w]: "unstarted", "head", "body", "returned"
    oob,            \* oob[w]: good_points was indexed at or past its length
    esc_points,     \* esc_points[w]: points pushed by orbits that were not
                    \*   discarded, so far (history, not a program variable)
    esc_inside,     \* esc_inside[w]: those of them inside [-2,2] x [-2,2]
    \* ---- main ----
    n_threads,      \* number of workers
    mpc,            \* position of main
    mi,             \* loop index i of the loop main is in
    total_progress, \* the sum the poll is accumulating
    done,           \* the wait loop's flag
    joined,         \* joined[w]: threads[w].join() has returned
    result,         \* merge_results' accumulator
    mem             \* mem[w]: the value of progress[w] other threads read

morphVars == <<msize, im, im2, mop, mres, mpoints>>
cmapVars == <<cmap_size, vmin, vmax, cm_v, left, right, cm_op>>
cfgVars == <<size, max_iter, p_uniform, good_points, point_radius, n_points>>
workerVars == <<counts, progress, k, points, wpc, oob, esc_points, esc_inside>>
mainVars == <<n_threads, mpc, mi, total_progress, done, joined, result, mem>>
vars == <<morphVars, cmapVars, cfgVars, workerVars, mainVars>>

-----------------------------------------------------------------------------
(* Bounds of the model. *)

\* largest grid side of the bitmap functions
MaxGrid == 3
\* largest colormap table, and largest value handed to the colour lookup
MaxTable == 3
MaxValue == 3
\* largest histogram side, iteration cap and sample count of a sampler
MaxSize == 3
MaxIter == 3
MaxPoints == 2
\* largest number of worker threads main starts, and of samples each takes
MaxThreads == 2
MaxMainPoints == 1
\* sample counts of the long runs reach MaxStrides progress strides
MaxStrides == 2
\* width of std::size_t in the model (64 in the build)
SizeBits == 3

-----------------------------------------------------------------------------
(* Rationals n/d with d > 0, and the arithmetic remap needs. *)

Rat(n, d) == [n |-> n, d |-> d]

\* static_cast<integer>(x): truncation toward zero
Trunc(x) == IF x.n >= 0 THEN x.n \div x.d ELSE -((-x.n) \div x.d)

\* std::size_t arithmetic wraps
WrapSize(x) == x % (2 ^ SizeBits)

\* std::clamp(t, 0, 1) of the quotient tn/td; a quotient x/0 is +inf or -inf
\* (0/0, a NaN, is the caller's case: see RemapIsNaN)
clamp01(tn0, td0) ==
    LET tn == IF td0 < 0 THEN -tn0 ELSE tn0
        td == IF td0 < 0 THEN -td0 ELSE td0
    IN  IF td = 0 THEN (IF tn > 0 THEN Rat(1, 1) ELSE Rat(0, 1))
        ELSE IF tn < 0 THEN Rat(0, 1)
        ELSE IF tn > td THEN Rat(1, 1)
        ELSE Rat(tn, td)

\* std::lerp(a, b, t) = a + t (b - a), a and b integers
lerp(a, b, t) == Rat(a * t.d + (b - a) * t.n, t.d)

\* remap(from_lo, from_hi, to_lo, to_hi, v), v a rational
remap(from_lo, from_hi, to_lo, to_hi, v) ==
    lerp(to_lo, to_hi, clamp01(v.n - from_lo * v.d, (from_hi - from_lo) * v.d))

\* (v - from_lo) / (from_hi - from_lo) is 0/0
RemapIsNaN(from_lo, from_hi, v) == from_hi = from_lo /\ v.n = from_lo * v.d

-----------------------------------------------------------------------------
(* The bitmap functions.  A bitmap is a function on 0 .. Len-1. *)

Cells(S) == 0 .. (S * S - 1)
Bitmaps(S) == [Cells(S) -> BOOLEAN]

\* the lambda in_bounds of im_edge and im_dilate
in_bounds(bm, idx) == idx >= 0 /\ idx < Cardinality(DOMAIN bm)

EdgeDeltas(S) == {-S, -1, 1, S}

im_edge(bm, S) ==
    [i \in DOMAIN bm |->
        bm[i] /\ \E delta \in EdgeDeltas(S) :
                    in_bounds(bm, i + delta) /\ ~bm[i + delta]]

im_invert(bm) == [i \in DOMAIN bm |-> ~bm[i]]

im_or(bm1, bm2) == [i \in DOMAIN bm1 |-> bm1[i] \/ bm2[i]]

DilateDeltas(S) == {-S, -1, 0, 1, S}

im_dilate(bm, S) ==
    [i \in DOMAIN bm |->
        \E delta \in DilateDeltas(S) : in_bounds(bm, i + delta) /\ bm[i + delta]]

\* the coordinate of column (or row) x of a grid of side S
GridCoord(x, S) == lerp(-2, 2, Rat(x, S))

RECURSIVE CollectFrom(_, _, _)
CollectFrom(bm, S, i) ==
    IF i >= S * S THEN <<>>
    ELSE LET y == i \div S
             x == i % S
             rest == CollectFrom(bm, S, i + 1)
         IN  IF bm[y * S + x]
             THEN <<  <<GridCoord(x, S), GridCoord(y, S)>>  >> \o rest
             ELSE rest

im_collect_points(bm, S) == CollectFrom(bm, S, 0)

\* sample(), lines 160-161: the histogram column and row of a point
HistX(S, re) == Trunc(remap(-2, 2, 0, S - 1, re))
HistY(S, imag) == Trunc(remap(-2, 2, 0, S - 1, imag))

-----------------------------------------------------------------------------
(* The selector's functions, each applied to a drawn bitmap. *)

MorphIdle ==
    /\ msize = 1
    /\ im = [i \in Cells(1) |-> FALSE]
    /\ im2 = [i \in Cells(1) |-> FALSE]
    /\ mop = "none"
    /\ mres = [i \in Cells(1) |-> FALSE]
    /\ mpoints = <<>>

MorphInit ==
    /\ msize \in 1 .. MaxGrid
    /\ im \in Bitmaps(msize)
    /\ im2 = [i \in Cells(msize) |-> (i % 2 = 0)]
    /\ mop = "none"
    /\ mres = [i \in Cells(msize) |-> FALSE]
    /\ mpoints = <<>>

CallEdge ==
    /\ mop = "none"
    /\ mres' = im_edge(im, msize)
    /\ mop' = "edge"
    /\ UNCHANGED <<msize, im, im2, mpoints>>
    /\ UNCHANGED <<cmapVars, cfgVars, workerVars, mainVars>>

CallInvert ==
    /\ mop = "none"
    /\ mres' = im_invert(im)
    /\ mop' = "invert"
    /\ UNCHANGED <<msize, im, im2, mpoints>>
    /\ UNCHANGED <<cmapVars, cfgVars, workerVars, mainVars>>

CallOr ==
    /\ mop = "none"
    /\ mres' = im_or(im, im2)
    /\ mop' = "or"
    /\ UNCHANGED <<msize, im, im2, mpoints>>
    /\ UNCHANGED <<cmapVars, cfgVars, workerVars, mainVars>>

CallDilate ==
    /\ mop = "none"
    /\ mres' = im_dilate(im, msize)
    /\ mop' = "dilate"
    /\ UNCHANGED <<msize, im, im2, mpoints>>
    /\ UNCHANGED <<cmapVars, cfgVars, workerVars, mainVars>>

CallCollectPoints ==
    /\ mop = "none"
    /\ mpoints' = im_collect_points(im, msize)
    /\ mop' = "collect"
    /\ UNCHANGED <<msize, im, im2, mres>>
    /\ UNCHANGED <<cmapVars, cfgVars, workerVars, mainVars>>

MorphNext == CallEdge \/ CallInvert \/ CallOr \/ CallDilate \/ CallCollectPoints

-----------------------------------------------------------------------------
(* Colormap: set_vrange and operator().  Values are integers 0 .. MaxValue. *)

CmapIdle ==
    /\ cmap_size = 2
    /\ vmin = 0
    /\ vmax = 1
    /\ cm_v = 0
    /\ left = 0
    /\ right = 0
    /\ cm_op = "none"

\* Colormap(cmap): vmin = 0 and vmax = 1 are the member initialisers
CmapInit ==
    /\ cmap_size \in 2 .. MaxTable
    /\ vmin = 0
    /\ vmax = 1
    /\ cm_v = 0
    /\ left = 0
    /\ right = 0
    /\ cm_op = "init"

set_vrange(new_vmin, new_vmax) ==
    /\ cm_op # "none"
    /\ vmin' = new_vmin
    /\ vmax' = new_vmax
    /\ cm_op' = "set_vrange"
    /\ UNCHANGED <<cmap_size, cm_v, left, right>>
    /\ UNCHANGED <<morphVars, cfgVars, workerVars, mainVars>>

\* the values static_cast<int>(v_scaled) converted to std::size_t can take:
\* the truncation, or any value at all when v_scaled is a NaN
LeftIndices(v) ==
    IF RemapIsNaN(vmin, vmax, Rat(v, 1))
    THEN 0 .. WrapSize(-1)
    ELSE {WrapSize(Trunc(remap(vmin, vmax, 0, cmap_size - 1, Rat(v, 1))))}

\* operator()(v): reads cmap[left] and cmap[right]
Lookup(v) ==
    /\ cm_op # "none"
    /\ \E l \in LeftIndices(v) :
          /\ left' = l
          /\ right' = WrapSize(l + 1)
    /\ cm_v' = v
    /\ cm_op' = "lookup"
    /\ UNCHANGED <<cmap_size, vmin, vmax>>
    /\ UNCHANGED <<morphVars, cfgVars, workerVars, mainVars>>

CmapNext ==
    \/ \E a, b \in 0 .. MaxValue : set_vrange(a, b)
    \/ \E v \in 0 .. MaxValue : Lookup(v)

-----------------------------------------------------------------------------
(* The orbit of a point.  Complex numbers are Gaussian integers. *)

Cplx(a, b) == [re |-> a, imag |-> b]

\* std::norm
Norm(z) == z.re * z.re + z.imag * z.imag

\* std::abs of a real
Abs(x) == IF x < 0 THEN -x ELSE x

\* the loop bound of the iteration, and the escape test after it
TrackMargin == 8
EscapeThreshold == 4
\* progress is stored every ProgressStride samples
ProgressStride == 1000

\* z * z + c
Iterate(z, c) ==
    Cplx(z.re * z.re - z.imag * z.imag + c.re, 2 * z.re * z.imag + c.imag)

\* lines 143-149: the values pushed to points, from z after i iterations
RECURSIVE Trajectory(_, _, _, _)
Trajectory(z, c, i, M) ==
    IF i < M /\ Norm(z) < TrackMargin
    THEN <<Iterate(z, c)>> \o Trajectory(Iterate(z, c), c, i + 1, M)
    ELSE <<>>

\* z when the iteration loop ends
FinalZ(pts) == IF pts = <<>> THEN Cplx(0, 0) ELSE pts[Len(pts)]

\* line 151: the orbit is discarded
DiscardedNever(pts) == FALSE
Discarded(pts) == Norm(FinalZ(pts)) < EscapeThreshold

\* line 156: the point is skipped
OutsideSquare(z) == Abs(z.re) > 2 \/ Abs(z.imag) > 2

\* line 164: the row of the mirror cell
MirrorRowSame(S, y) == y
MirrorRow(S, y) == S - y - 1

\* lines 156-164: one point of an escaping orbit
Visit(h, z, S) ==
    IF OutsideSquare(z) THEN h
    ELSE LET x == HistX(S, Rat(z.re, 1))
             y == HistY(S, Rat(z.imag, 1))
             h1 == [h EXCEPT ![y * S + x] = @ + 1]
         IN  [h1 EXCEPT ![MirrorRow(S, y) * S + x] = @ + 1]

\* lines 155-165: the loop over points
RECURSIVE Accumulate(_, _, _)
Accumulate(h, pts, S) ==
    IF pts = <<>> THEN h
    ELSE Accumulate(Visit(h, Head(pts), S), Tail(pts), S)

\* lines 151-165: what one sample leaves in the histogram
AfterOrbit(h, pts, S) == IF Discarded(pts) THEN h ELSE Accumulate(h, pts, S)

-----------------------------------------------------------------------------
(* The random draws of sample().  Real draws are taken on the integers. *)

\* p_uniform is a pair <<numerator, denominator>>; the outcomes of
\* use_uniform(eng): true needs p > 0, false needs p < 1
Bernoulli(p) == {b \in BOOLEAN : (b => p[1] > 0) /\ (~b => p[1] < p[2])}

\* uniform(eng) for uniform_real_distribution(-2, 2): a value of [-2, 2)
UniformReals == -2 .. 1
UniformDraws == {Cplx(a, b) : a \in UniformReals, b \in UniformReals}

\* r_dist(eng) for uniform_real_distribution(mid - r, mid + r), mid rational:
\* a value of [mid - r, mid + r), or mid when r = 0
NearReals(mid, r) ==
    {a \in -3 .. 2 :
        \/ mid.n - r * mid.d <= a * mid.d /\ a * mid.d < mid.n + r * mid.d
        \/ r = 0 /\ a * mid.d = mid.n}
NearDraws(pt, r) == {Cplx(a, b) : a \in NearReals(pt[1], r), b \in NearReals(pt[2], r)}

\* line 122: the bounds of point_idx_dist; good_points.size() - 1 is unsigned
PointIdxMax(gp) == WrapSize(Len(gp) - 1)

\* what reading good_points past its end can yield as a point
StrayDraws == {Cplx(a, b) : a \in {-3, 0, 2}, b \in {-3, 0, 2}}

\* lines 133-141: the values c can take in one sample; idx is the value drawn
\* by point_idx_dist when the proposal is edge-biased
Proposals(use_uniform, idx) ==
    IF use_uniform THEN UniformDraws
    ELSE IF idx < Len(good_points) THEN NearDraws(good_points[idx + 1], point_radius)
    ELSE StrayDraws

-----------------------------------------------------------------------------
(* BuddhabrotThread::sample, run by worker w. *)

Workers == 1 .. n_threads

\* a faulting read ends the process, and every thread with it
ProcessAlive == \A w \in Workers : wpc[w] # "crashed"

ZeroHist(S) == [i \in Cells(S) |-> 0]

\* line 128-129: the value stored to progress at the head of iteration kk
StrideProgressFar(kk) == kk + ProgressStride
StrideProgress(kk) == kk + 1

\* lines 127-130: the loop test and the strided store to progress
LoopHead(w) ==
    /\ w \in Workers
    /\ ProcessAlive
    /\ wpc[w] = "head"
    /\ k[w] < n_points
    /\ progress' = [progress EXCEPT ![w] =
                       IF k[w] % ProgressStride = 0 THEN StrideProgress(k[w]) ELSE @]
    /\ wpc' = [wpc EXCEPT ![w] = "body"]
    /\ UNCHANGED <<counts, k, points, oob, esc_points, esc_inside>>
    /\ UNCHANGED <<morphVars, cmapVars, cfgVars, mainVars>>

InsideCount(pts) ==
    Cardinality({j \in 1 .. Len(pts) :
                    pts[j].re \in -2 .. 2 /\ pts[j].imag \in -2 .. 2})

\* lines 132-165: draw c, iterate, accumulate; ++k.  An index at or past the
\* end of good_points reads memory that is not a point: the read faults, or
\* yields some value.
SampleBody(w) ==
    /\ w \in Workers
    /\ ProcessAlive
    /\ wpc[w] = "body"
    /\ \E use_uniform \in Bernoulli(p_uniform) :
       \E idx \in IF use_uniform THEN {0} ELSE 0 .. PointIdxMax(good_points) :
       \E stray \in {~use_uniform /\ idx >= Len(good_points)} :
       \E faults \in IF stray THEN BOOLEAN ELSE {FALSE} :
          /\ oob' = [oob EXCEPT ![w] = @ \/ stray]
          /\ IF faults
             THEN /\ wpc' = [wpc EXCEPT ![w] = "crashed"]
                  /\ UNCHANGED <<counts, k, points, esc_points, esc_inside>>
             ELSE \E c \in Proposals(use_uniform, idx) :
                  \E pts \in {Trajectory(Cplx(0, 0), c, 0, max_iter)} :
                  \E esc \in {Norm(FinalZ(pts)) >= EscapeThreshold} :
                        /\ points' = [points EXCEPT ![w] = pts]
                        /\ counts' = [counts EXCEPT ![w] = AfterOrbit(@, pts, size)]
                        /\ esc_points' = [esc_points EXCEPT ![w] =
                                             IF esc THEN @ + Len(pts) ELSE @]
                        /\ esc_inside' = [esc_inside EXCEPT ![w] =
                                             IF esc THEN @ + InsideCount(pts) ELSE @]
                        /\ k' = [k EXCEPT ![w] = @ + 1]
                        /\ wpc' = [wpc EXCEPT ![w] = "head"]
    /\ UNCHANGED progress
    /\ UNCHANGED <<morphVars, cmapVars, cfgVars, mainVars>>

\* line 168, and the return
SampleReturn(w) ==
    /\ w \in Workers
    /\ ProcessAlive
    /\ wpc[w] = "head"
    /\ k[w] = n_points
    /\ progress' = [progress EXCEPT ![w] = n_points]
    /\ wpc' = [wpc EXCEPT ![w] = "returned"]
    /\ UNCHANGED <<counts, k, points, oob, esc_points, esc_inside>>
    /\ UNCHANGED <<morphVars, cmapVars, cfgVars, mainVars>>

WorkerStep(w) == LoopHead(w) \/ SampleBody(w) \/ SampleReturn(w)

-----------------------------------------------------------------------------
(* main: start the workers, poll their progress, join them, merge. *)

\* lines 289-292: one iteration of the loop that starts the threads
StartThread ==
    /\ mpc = "start"
    /\ ProcessAlive
    /\ wpc' = [wpc EXCEPT ![mi + 1] = "head"]
    /\ IF mi + 1 < n_threads
       THEN /\ mi' = mi + 1
            /\ UNCHANGED <<mpc, total_progress>>
       ELSE /\ mi' = 0
            /\ mpc' = "poll"
            /\ total_progress' = 0
    /\ UNCHANGED <<n_threads, done, joined, result, mem>>
    /\ UNCHANGED <<counts, progress, k, points, oob, esc_points, esc_inside>>
    /\ UNCHANGED <<morphVars, cmapVars, cfgVars>>

\* A store to progress reaches the memory the other threads read.  progress
\* is a plain std::uint64_t read by main while its worker writes it, so what
\* main reads is the worker's latest store or an earlier one.
StoreVisible(w) ==
    /\ w \in Workers
    /\ ProcessAlive
    /\ mem[w] # progress[w]
    /\ mem' = [mem EXCEPT ![w] = progress[w]]
    /\ UNCHANGED <<n_threads, mpc, mi, total_progress, done, joined, result>>
    /\ UNCHANGED <<morphVars, cmapVars, cfgVars, workerVars>>

\* lines 300-302: one iteration of the summing loop
PollProgress ==
    /\ mpc = "poll"
    /\ ProcessAlive
    /\ total_progress' = total_progress + mem[mi + 1]
    /\ IF mi + 1 < n_threads
       THEN /\ mi' = mi + 1
            /\ UNCHANGED mpc
       ELSE /\ mi' = 0
            /\ mpc' = "report"
    /\ UNCHANGED <<n_threads, done, joined, result, mem>>
    /\ UNCHANGED <<morphVars, cmapVars, cfgVars, workerVars>>

\* line 309: the value assigned to done
WaitDoneAnyWorker(total) == total >= n_points
WaitDone(total) == total >= n_points * n_threads

\* lines 304-309 and the loop test of line 296: print_progress, sleep_for,
\* done = ..., and either another poll or on to the joins
ReportAndTest ==
    /\ mpc = "report"
    /\ ProcessAlive
    /\ done' = WaitDone(total_progress)
    /\ IF done'
       THEN /\ mpc' = "join"
            /\ UNCHANGED total_progress
       ELSE /\ mpc' = "poll"
            /\ total_progress' = 0
    /\ mi' = 0
    /\ UNCHANGED <<n_threads, joined, result, mem>>
    /\ UNCHANGED <<morphVars, cmapVars, cfgVars, workerVars>>

\* threads[w].join() returns once the thread function has returned
JoinReturnsAtOnce(w) == TRUE
JoinReturns(w) == wpc[w] = "returned"

\* lines 312-314: one iteration of the join loop; after the last one,
\* line 233 of merge_results (the zeroed accumulator)
JoinThread ==
    /\ mpc = "join"
    /\ ProcessAlive
    /\ JoinReturns(mi + 1)
    /\ joined' = [joined EXCEPT ![mi + 1] = TRUE]
    /\ mem' = [mem EXCEPT ![mi + 1] = progress[mi + 1]]
    /\ IF mi + 1 < n_threads
       THEN /\ mi' = mi + 1
            /\ UNCHANGED <<mpc, result>>
       ELSE /\ mi' = 0
            /\ mpc' = "merge"
            /\ result' = ZeroHist(size)
    /\ UNCHANGED <<n_threads, total_progress, done>>
    /\ UNCHANGED <<morphVars, cmapVars, cfgVars, workerVars>>

\* lines 235-237: one iteration of merge_results' loop over the threads
MergeThread ==
    /\ mpc = "merge"
    /\ ProcessAlive
    /\ result' = [i \in DOMAIN result |-> result[i] + counts[mi + 1][i]]
    /\ IF mi + 1 < n_threads
       THEN /\ mi' = mi + 1
            /\ UNCHANGED mpc
       ELSE /\ mi' = 0
            /\ mpc' = "merged"
    /\ UNCHANGED <<n_threads, total_progress, done, joined, mem>>
    /\ UNCHANGED <<morphVars, cmapVars, cfgVars, workerVars>>

MainStep == StartThread \/ PollProgress \/ ReportAndTest \/ JoinThread \/ MergeThread

-----------------------------------------------------------------------------
(* Initial states. *)

\* no sampler and no main: the state of the specifications of the bitmap
\* functions and of the colour lookup
SamplerIdle ==
    /\ size = 1 /\ max_iter = 1 /\ p_uniform = <<1, 1>>
    /\ good_points = <<>> /\ point_radius = 0 /\ n_points = 0
    /\ n_threads = 1
    /\ counts = [w \in 1 .. 1 |-> ZeroHist(1)]
    /\ progress = [w \in 1 .. 1 |-> 0]
    /\ k = [w \in 1 .. 1 |-> 0]
    /\ points = [w \in 1 .. 1 |-> <<>>]
    /\ wpc = [w \in 1 .. 1 |-> "unstarted"]
    /\ oob = [w \in 1 .. 1 |-> FALSE]
    /\ esc_points = [w \in 1 .. 1 |-> 0]
    /\ esc_inside = [w \in 1 .. 1 |-> 0]
    /\ mpc = "none" /\ mi = 0 /\ total_progress = 0 /\ done = FALSE
    /\ joined = [w \in 1 .. 1 |-> FALSE]
    /\ result = ZeroHist(1)
    /\ mem = [w \in 1 .. 1 |-> 0]

\* the copies of buddha_template (lines 276-284, 289): zeroed histogram,
\* progress 0; pc0 is where each worker stands
Samplers(pc0) ==
    /\ counts = [w \in Workers |-> ZeroHist(size)]
    /\ progress = [w \in Workers |-> 0]
    /\ k = [w \in Workers |-> 0]
    /\ points = [w \in Workers |-> <<>>]
    /\ wpc = [w \in Workers |-> pc0]
    /\ oob = [w \in Workers |-> FALSE]
    /\ esc_points = [w \in Workers |-> 0]
    /\ esc_inside = [w \in Workers |-> 0]
    /\ joined = [w \in Workers |-> FALSE]
    /\ mem = [w \in Workers |-> 0]
    /\ mi = 0 /\ total_progress = 0 /\ done = FALSE
    /\ result = ZeroHist(size)

\* the good points of the 2 x 2 grid, as find_good_points would collect them
GridPoints == im_collect_points([i \in Cells(2) |-> TRUE], 2)

\* sample(n_points) called on one sampler, with no supervising thread
SampleInit ==
    /\ size \in 2 .. MaxSize
    /\ max_iter \in {1, MaxIter}
    /\ p_uniform \in {<<0, 1>>, <<1, 2>>, <<1, 1>>}
    /\ good_points \in {SubSeq(GridPoints, 1, j) : j \in 0 .. 2}
    /\ point_radius \in {0, 1}
    /\ n_points \in 0 .. MaxPoints
    /\ n_threads = 1
    /\ mpc = "none"
    /\ Samplers("head")

\* a run of main whose every proposal is the one good point itself
MainConfig ==
    /\ size = 2
    /\ max_iter = 2
    /\ p_uniform = <<0, 1>>
    /\ good_points \in {<<GridPoints[j]>> : j \in {2, 4}}
    /\ point_radius = 0

MainInit ==
    /\ MainConfig
    /\ n_threads \in 1 .. MaxThreads
    /\ n_points \in 1 .. MaxMainPoints
    /\ mpc = "start"
    /\ Samplers("unstarted")

\* sample counts about the multiples of the progress stride
LongCounts ==
    {1} \cup {j * ProgressStride + d : j \in 1 .. MaxStrides, d \in {-1, 0, 1}}

\* long runs: main with one worker, and sample(0) called directly
ProgressInit ==
    /\ MainConfig
    /\ n_threads = 1
    /\ \/ /\ n_points \in LongCounts
          /\ mpc = "start"
          /\ Samplers("unstarted")
       \/ /\ n_points = 0
          /\ mpc = "none"
          /\ Samplers("head")

-----------------------------------------------------------------------------
(* Specifications. *)

Next ==
    \/ MainStep
    \/ \E w \in 1 .. MaxThreads : WorkerStep(w)
    \/ \E w \in 1 .. MaxThreads : StoreVisible(w)

SampleNext == \E w \in 1 .. MaxThreads : WorkerStep(w)

\* every thread keeps running: main, and each worker together with the
\* draining of its stores (a worker that has returned has its last store
\* made visible in the end)
ThreadStep(w) == WorkerStep(w) \/ StoreVisible(w)
Fairness ==
    /\ WF_vars(MainStep)
    /\ \A w \in 1 .. MaxThreads : WF_vars(ThreadStep(w))

Init == MorphIdle /\ CmapIdle /\ MainInit
Spec == Init /\ [][Next]_vars /\ Fairness

InitProgress == MorphIdle /\ CmapIdle /\ ProgressInit
SpecProgress == InitProgress /\ [][Next]_vars

InitSample == MorphIdle /\ CmapIdle /\ SampleInit
SpecSample == InitSample /\ [][SampleNext]_vars

InitMorph == MorphInit /\ CmapIdle /\ SamplerIdle
SpecMorph == InitMorph /\ [][MorphNext]_vars

InitCmap == MorphIdle /\ CmapInit /\ SamplerIdle
SpecCmap == InitCmap /\ [][CmapNext]_vars

-----------------------------------------------------------------------------
(* Properties. *)

\* the cells of the grid next to (x, y): up, down, left, right
Neighbours4(x, y, S) ==
    {c \in {<<x, y - 1>>, <<x, y + 1>>, <<x - 1, y>>, <<x + 1, y>>} :
        c[1] \in 0 .. (S - 1) /\ c[2] \in 0 .. (S - 1)}

CellAt(bm, c, S) == bm[c[2] * S + c[1]]

Total(h) == LET RECURSIVE Sum(_)
                Sum(i) == IF i < 0 THEN 0 ELSE h[i] + Sum(i - 1)
            IN  Sum(Cardinality(DOMAIN h) - 1)

Merging == mpc \in {"merge", "merged"}
AllJoined ==
    \A w \in Workers : joined[w] /\ wpc[w] = "returned" /\ k[w] = n_points
MergedIsSum ==
    mpc = "merged" =>
        /\ \A i \in Cells(size) :
              result[i] = Total([w \in 0 .. (n_threads - 1) |-> counts[w + 1][i]])
        /\ Total(result) = 2 * Total([w \in 0 .. (n_threads - 1) |-> esc_inside[w + 1]])

\* C1: main is merging (or has merged) only when every worker has returned
\* from sample() with all n_points samples done and has been joined; no
\* histogram cell changes from then on; and the merged histogram is the
\* cell-wise sum of the workers' histograms.
MergeAfterJoin ==
    [][/\ Merging => AllJoined
       /\ Merging' => AllJoined'
       /\ Merging => counts' = counts
       /\ MergedIsSum'
      ]_vars

\* C1 witness: the wait loop ended while a worker was still in its last
\* sample, and the merge has been done with a non-empty histogram
MergeWitness ==
    /\ mpc = "merged"
    /\ n_threads >= 2
    /\ Total(result) > 0

\* C2: with no good points, good_points is never indexed at or past its end.
NoStrayIndex == \A w \in Workers : good_points = <<>> => ~oob[w]

\* C3: im_edge sets (x, y) exactly when B(x, y) holds and a 4-neighbour
\* inside the grid is false.
EdgeIsFourConnected ==
    mop = "edge" =>
        \A x, y \in 0 .. (msize - 1) :
            CellAt(mres, <<x, y>>, msize) <=>
                /\ CellAt(im, <<x, y>>, msize)
                /\ \E c \in Neighbours4(x, y, msize) : ~CellAt(im, c, msize)

\* C4: im_dilate sets (x, y) exactly when B holds at (x, y) or at a
\* 4-neighbour inside the grid.
DilateIsFourConnected ==
    mop = "dilate" =>
        \A x, y \in 0 .. (msize - 1) :
            CellAt(mres, <<x, y>>, msize) <=>
                \/ CellAt(im, <<x, y>>, msize)
                \/ \E c \in Neighbours4(x, y, msize) : CellAt(im, c, msize)

\* a step of worker w's own sample() that stores to progress
OwnStep(w) ==
    /\ wpc[w] = "head"
    /\ wpc'[w] \in {"body", "returned"}
    /\ UNCHANGED mainVars
    /\ \A v \in Workers \ {w} : progress'[v] = progress[v] /\ wpc'[v] = wpc[v]
ProgressBounded ==
    \A w \in Workers :
        /\ progress[w] <= n_points
        /\ wpc[w] = "returned" => progress[w] = n_points

\* C5: a worker's progress changes only in a step of that worker's own
\* sample(), never decreases, never exceeds n_points, and is n_points once
\* sample() has returned.
ProgressContract ==
    [][/\ ProgressBounded
       /\ ProgressBounded'
       /\ \A w \in Workers :
             /\ progress'[w] >= progress[w]
             /\ progress'[w] # progress[w] => OwnStep(w)
      ]_vars

\* C5 witness: a sample() that stored progress at more than one stride has
\* returned
ProgressWitness ==
    \E w \in Workers :
        /\ wpc[w] = "returned"
        /\ n_points > ProgressStride + 1
        /\ progress[w] = n_points

Waiting == mpc \in {"poll", "report"}

\* C6: the wait loop is left in the end, and only from the test after a poll
\* that summed all n_threads counters to at least n_threads * n_points.
WaitLoopContract ==
    /\ <>(mpc = "join")
    /\ [][(Waiting /\ ~Waiting') =>
             /\ mpc = "report"
             /\ mpc' = "join"
             /\ total_progress >= n_threads * n_points
             /\ total_progress = Total([w \in 0 .. (n_threads - 1) |-> mem[w + 1]])
         ]_vars

\* C6 witness: the loop has ended with several workers, one of them still
\* inside its last sample
WaitWitness ==
    /\ mpc = "join"
    /\ done
    /\ n_threads >= 2
    /\ \E w \in Workers : wpc[w] = "body"

\* C7: every histogram cell equals its mirror in the row size-1-y.
MirrorSymmetric ==
    \A w \in Workers : \A x, y \in 0 .. (size - 1) :
        counts[w][y * size + x] = counts[w][(size - 1 - y) * size + x]

\* C7 witness: two samples done, and a cell of the top row is populated
MirrorWitness ==
    \E w \in Workers :
        /\ wpc[w] = "returned"
        /\ k[w] >= 2
        /\ \E x \in 0 .. (size - 1) : counts[w][x] > 0
        /\ \E i \in Cells(size) : counts[w][i] = 0

\* C8 as stated: after sample(), the histogram total is twice the number of
\* points pushed by the orbits that were not discarded (stated of the runs
\* in which every index into good_points was in range).
TotalIsTwiceRecorded ==
    \A w \in Workers :
        (wpc[w] = "returned" /\ ~oob[w]) => Total(counts[w]) = 2 * esc_points[w]

\* C8 amended: after sample(), the histogram total is twice the number of
\* those points that lie inside [-2,2] x [-2,2].
TotalIsTwiceInside ==
    \A w \in Workers :
        wpc[w] = "returned" => Total(counts[w]) = 2 * esc_inside[w]

\* C8 witness: an escaping orbit left points inside and outside the square,
\* and the last orbit was discarded
TotalWitness ==
    \E w \in Workers :
        /\ wpc[w] = "returned"
        /\ esc_inside[w] > 0
        /\ esc_points[w] > esc_inside[w]
        /\ points[w] # <<>>
        /\ Norm(FinalZ(points[w])) < EscapeThreshold

\* C9: every collected point, mapped to histogram indices as sample() maps
\* a point, is a true cell of the bitmap.
CollectRoundTrip ==
    mop = "collect" =>
        \A j \in 1 .. Len(mpoints) :
            CellAt(im, <<HistX(msize, mpoints[j][1]), HistY(msize, mpoints[j][2])>>, msize)

\* C10: a lookup of a value of [vmin, vmax], vmin < vmax, reads the table
\* only at indices 0 .. cmap_size-1.
CmapReadsInRange ==
    (cm_op = "lookup" /\ vmin < vmax /\ vmin <= cm_v /\ cm_v <= vmax) =>
        /\ left \in 0 .. (cmap_size - 1)
        /\ right \in 0 .. (cmap_size - 1)

=============================================================================
